---- MODULE Spec2Model ----
(***************************************************************************)
(* A model of claude-code-router-switcher: the configuration document      *)
(* (Router section and Providers list), the ConfigManager methods that     *)
(* read and rewrite it, and the CLI commands built on them.                *)
(*                                                                         *)
(* A Python string is a sequence of tokens: a name ("p1", "m2"), a comma   *)
(* or a blank.  split, rsplit, strip and endswith work on that sequence as *)
(* they work on the characters of a string whose names hold no comma and  *)
(* no blank of their own.                                                  *)
(*                                                                         *)
(* The config file exists and holds a JSON object with a Router object and *)
(* a Providers array; the FileNotFoundError paths are left out.  The       *)
(* "ccr stop" subprocess that change_router starts after it has saved does *)
(* not touch the document and is left out too.                             *)
(*                                                                         *)
(* Spec runs whole commands one after the other, SpecCalls calls the two   *)
(* functions that talk to a provider's endpoint, and SpecSteps runs two    *)
(* invocations load by load and save by save.                              *)
(***************************************************************************)
EXTENDS Integers, Sequences, FiniteSets, TLC

(* ------------------------------ bounds -------------------------------- *)
MaxCommands == 1      \* commands run one after the other from an initial document
MaxProviders == 3     \* add_provider is tried on documents of up to this many providers
MaxThreshold == 1     \* the thresholds given to set_long_context_threshold

(* ------------------------------ strings ------------------------------- *)
COMMA == ","
BLANK == " "

P1 == <<"p1">>
P2 == <<"p2">>
M1 == <<"m1">>
M2 == <<"m2">>
\* "http://h1" is <<"h1">>, "http://h1/v1" is <<"h1", "/", "v1">>
H1 == <<"h1">>
H2 == <<"h2">>

ProviderNames == {P1, P2}
ModelNames == {M1, M2}

Join(a, b) == a \o <<COMMA>> \o b

Contains(seq, x) == \E i \in 1..Len(seq) : seq[i] = x

ToSet(seq) == { seq[i] : i \in 1..Len(seq) }

\* str.strip(): leading and trailing blanks removed
RECURSIVE LStrip(_)
LStrip(s) == IF s # <<>> /\ Head(s) = BLANK THEN LStrip(Tail(s)) ELSE s

RECURSIVE RStrip(_)
RStrip(s) ==
    IF s # <<>> /\ s[Len(s)] = BLANK THEN RStrip(SubSeq(s, 1, Len(s) - 1)) ELSE s

Strip(s) == RStrip(LStrip(s))

\* "," in s
HasComma(s) == Contains(s, COMMA)

FirstComma(s) == CHOOSE i \in 1..Len(s) : s[i] = COMMA /\ \A j \in 1..(i - 1) : s[j] # COMMA

LastComma(s) == CHOOSE i \in 1..Len(s) : s[i] = COMMA /\ \A j \in (i + 1)..Len(s) : s[j] # COMMA

\* s.split(",", 1) of a string that holds a comma
Split1(s) == << SubSeq(s, 1, FirstComma(s) - 1), SubSeq(s, FirstComma(s) + 1, Len(s)) >>

\* s.rsplit(",", 1) of a string that holds a comma
RSplit1(s) == << SubSeq(s, 1, LastComma(s) - 1), SubSeq(s, LastComma(s) + 1, Len(s)) >>

\* s.endswith(suffix)
EndsWith(s, suffix) ==
    /\ Len(suffix) <= Len(s)
    /\ SubSeq(s, Len(s) - Len(suffix) + 1, Len(s)) = suffix

\* list.remove(x): the first occurrence of x is removed
RemoveFirst(seq, x) ==
    LET i == CHOOSE k \in 1..Len(seq) : seq[k] = x /\ \A j \in 1..(k - 1) : seq[j] # x
    IN  SubSeq(seq, 1, i - 1) \o SubSeq(seq, i + 1, Len(seq))

(* --------------------------- JSON values ------------------------------ *)
\* a Router value is a JSON string or a JSON integer
StrVal(s) == [str |-> s]
IntVal(n) == [int |-> n]
IsStr(v) == "str" \in DOMAIN v

THRESHOLD == "longContextThreshold"

\* dict.pop(key, None)
Pop(d, key) == [k \in (DOMAIN d) \ {key} |-> d[k]]

\* d[key] = value
Put(d, key, value) == [k \in (DOMAIN d) \cup {key} |-> IF k = key THEN value ELSE d[k]]

(* ----------------------------- JSON text ------------------------------ *)
\* The text of a JSON object is the sequence of its members <<key, text of the
\* value>>, the text of an array the sequence of its elements' texts; a string, a
\* number or a boolean is written as itself.  A dict carries no order here, so the
\* members are written in the order of the keys listed below.
DocumentKeys == << "Router", "Providers", "LOG" >>

RouterKeys ==
    << "default", "background", "think", "longContext", "webSearch",
       "longContextThreshold", "custom" >>

ProviderKeys == << "name", "api_base_url", "api_key", "models" >>

\* json.dump of a dict whose values are already text: every key once, with its value
dump_members(d, order) ==
    LET keys == SelectSeq(order, LAMBDA k : k \in DOMAIN d)
    IN  [i \in 1..Len(keys) |-> <<keys[i], d[keys[i]]>>]

\* json.load of an object, the values still text: of two members with the same key
\* the later one stays
load_members(text) ==
    [k \in { text[i][1] : i \in 1..Len(text) } |->
        LET latest == CHOOSE i \in 1..Len(text) :
                        /\ text[i][1] = k
                        /\ \A j \in (i + 1)..Len(text) : text[j][1] # k
        IN  text[latest][2]]

dump_atom(v) == v

load_atom(t) == t

dump_router(router_config) ==
    dump_members([k \in DOMAIN router_config |-> dump_atom(router_config[k])], RouterKeys)

dump_providers(providers) ==
    [i \in 1..Len(providers) |->
        dump_members([k \in DOMAIN providers[i] |-> dump_atom(providers[i][k])],
                     ProviderKeys)]

\* a variant that writes the two sections the tool knows and no other key
save_config_known_sections(config) ==
    dump_members([k \in DOMAIN config |->
                     IF k = "Router" THEN dump_router(config[k])
                     ELSE IF k = "Providers" THEN dump_providers(config[k])
                     ELSE dump_atom(config[k])],
                 << "Router", "Providers" >>)

\* save_config: the text json.dump writes for the document
save_config(config) ==
    dump_members([k \in DOMAIN config |->
                     IF k = "Router" THEN dump_router(config[k])
                     ELSE IF k = "Providers" THEN dump_providers(config[k])
                     ELSE dump_atom(config[k])],
                 DocumentKeys)

load_object(text) ==
    LET members == load_members(text)
    IN  [k \in DOMAIN members |-> load_atom(members[k])]

\* load_config: the document json.load reads from the text
load_config(text) ==
    LET members == load_members(text)
    IN  [k \in DOMAIN members |->
            IF k = "Router" THEN load_object(members[k])
            ELSE IF k = "Providers"
            THEN [i \in 1..Len(members[k]) |-> load_object(members[k][i])]
            ELSE load_atom(members[k])]

\* the document the next load_config reads once save_config(config) has run
stored(config) == load_config(save_config(config))

(* --------------------------- ConfigManager ---------------------------- *)
\* Every method loads the document, and a mutating one saves exactly the
\* document it changed; a method that raises saves nothing.  A result is
\* [raised, config]: config is the document on disk after the call.

get_router_config(config) == config.Router

update_router_config(config, router_config) ==
    stored([config EXCEPT !.Router = router_config])

get_providers(config) == config.Providers

\* a variant that looks at the names alone
check_duplicate_name_only(config, new_provider) ==
    \E i \in 1..Len(get_providers(config)) :
        get_providers(config)[i].name = new_provider.name

\* a variant that looks at the URLs alone
check_duplicate_url_only(config, new_provider) ==
    \E i \in 1..Len(get_providers(config)) :
        get_providers(config)[i].api_base_url = new_provider.api_base_url

check_duplicate_provider(config, new_provider) ==
    \E i \in 1..Len(get_providers(config)) :
        \/ get_providers(config)[i].name = new_provider.name
        \/ get_providers(config)[i].api_base_url = new_provider.api_base_url

ConfigManager_add_provider(config, provider) ==
    IF check_duplicate_provider(config, provider)
    THEN [raised |-> TRUE, config |-> config]
    ELSE [raised |-> FALSE,
          config |-> stored([config EXCEPT !.Providers = Append(@, provider)])]

HasProvider(config, provider_name) ==
    \E i \in 1..Len(config.Providers) : config.Providers[i].name = provider_name

\* the first provider of that name, as the loop of add_model_to_provider finds it
FirstNamed(config, provider_name) ==
    CHOOSE i \in 1..Len(config.Providers) :
        /\ config.Providers[i].name = provider_name
        /\ \A j \in 1..(i - 1) : config.Providers[j].name # provider_name

\* a variant without the "if model_name not in models" test
add_model_to_provider_always_appends(config, provider_name, model_name) ==
    IF ~HasProvider(config, provider_name)
    THEN [raised |-> TRUE, config |-> config]
    ELSE LET i == FirstNamed(config, provider_name)
         IN  [raised |-> FALSE,
              config |-> [config EXCEPT !.Providers[i].models = Append(@, model_name)]]

add_model_to_provider(config, provider_name, model_name) ==
    IF ~HasProvider(config, provider_name)
    THEN [raised |-> TRUE, config |-> config]
    ELSE LET i == FirstNamed(config, provider_name)
         IN  IF Contains(config.Providers[i].models, model_name)
             THEN [raised |-> FALSE, config |-> config]
             ELSE [raised |-> FALSE,
                   config |-> stored([config EXCEPT
                                         !.Providers[i].models = Append(@, model_name)])]

\* the dict comprehension keeps, for a name, the models of the last provider of that name
get_all_models(config) ==
    [n \in { config.Providers[i].name : i \in 1..Len(config.Providers) } |->
        LET latest == CHOOSE i \in 1..Len(config.Providers) :
                        /\ config.Providers[i].name = n
                        /\ \A j \in (i + 1)..Len(config.Providers) : config.Providers[j].name # n
        IN  config.Providers[latest].models]

\* the names come in the dict's order: the order of each name's first provider
find_providers_for_model(config, model_name) ==
    LET byProvider == get_all_models(config)
        firsts == SelectSeq([i \in 1..Len(config.Providers) |-> i],
                            LAMBDA i : \A j \in 1..(i - 1) :
                                config.Providers[j].name # config.Providers[i].name)
        hits == SelectSeq(firsts,
                          LAMBDA i : Contains(byProvider[config.Providers[i].name], model_name))
    IN  [k \in 1..Len(hits) |-> config.Providers[hits[k]].name]

\* a variant that is content with the provider being there
validate_provider_only(config, provider_name, model_name) ==
    provider_name \in DOMAIN get_all_models(config)

validate_provider_model(config, provider_name, model_name) ==
    LET byProvider == get_all_models(config)
    IN  /\ provider_name \in DOMAIN byProvider
        /\ Contains(byProvider[provider_name], model_name)

\* a variant that also drops the Router entries naming the deleted provider
ConfigManager_delete_provider_cascading(config, provider_name) ==
    LET kept == SelectSeq(config.Providers, LAMBDA p : p.name # provider_name)
        router == config.Router
        live == { k \in DOMAIN router :
                    ~(/\ IsStr(router[k])
                      /\ HasComma(router[k].str)
                      /\ Split1(router[k].str)[1] = provider_name) }
    IN  IF Len(kept) = Len(config.Providers)
        THEN [raised |-> TRUE, config |-> config]
        ELSE [raised |-> FALSE,
              config |-> [config EXCEPT !.Providers = kept,
                                        !.Router = [k \in live |-> router[k]]]]

ConfigManager_delete_provider(config, provider_name) ==
    LET kept == SelectSeq(config.Providers, LAMBDA p : p.name # provider_name)
    IN  IF Len(kept) = Len(config.Providers)
        THEN [raised |-> TRUE, config |-> config]
        ELSE [raised |-> FALSE, config |-> stored([config EXCEPT !.Providers = kept])]

\* a variant whose loop stops at the first provider that lists the model
ConfigManager_delete_model_first_only(config, model_name) ==
    LET holders == { i \in 1..Len(config.Providers) :
                       Contains(config.Providers[i].models, model_name) }
        first == CHOOSE i \in holders : \A j \in holders : i <= j
    IN  IF holders = {}
        THEN [raised |-> TRUE, config |-> config]
        ELSE [raised |-> FALSE,
              config |-> [config EXCEPT
                             !.Providers[first].models = RemoveFirst(@, model_name)]]

ConfigManager_delete_model(config, model_name) ==
    LET found == \E i \in 1..Len(config.Providers) :
                     Contains(config.Providers[i].models, model_name)
        swept == [i \in 1..Len(config.Providers) |->
                    IF Contains(config.Providers[i].models, model_name)
                    THEN [config.Providers[i] EXCEPT !.models = RemoveFirst(@, model_name)]
                    ELSE config.Providers[i]]
    IN  IF ~found
        THEN [raised |-> TRUE, config |-> config]
        ELSE [raised |-> FALSE, config |-> stored([config EXCEPT !.Providers = swept])]

(* ------------------------------- state -------------------------------- *)
VARIABLES
    file,       \* the configuration document on disk
    last,       \* the last command run: its name, arguments, exit status and output
    sweep,      \* the locals of a running update_models: snapshot, position, report
    commands,   \* the number of commands started
    procs       \* the invocations that run step by step: position and locals of each

vars == <<file, last, sweep, commands, procs>>

valid_types == {"default", "background", "think", "longContext", "webSearch"}

\* a variant that lets the default assignment be deleted
deletable_types_with_default == {"default", "background", "think", "longContext", "webSearch"}

deletable_types == {"background", "think", "longContext", "webSearch"}

\* an invocation that has not started
NotStarted ==
    [op |-> "none", args |-> << >>, pc |-> "idle", exit |-> 0, note |-> "",
     config |-> << >>, router_config |-> << >>, final_value |-> << >>,
     cascade |-> FALSE, pending |-> << >>,
     saves |-> 0, stale |-> FALSE]

Invocations == {"a", "b"}

NoProcs == [p \in Invocations |-> NotStarted]

Idle == [active |-> FALSE, providers |-> <<>>, next |-> 1, name |-> <<>>, stored |-> {},
         fetched |-> {}, protected |-> {}, added |-> {}, removed |-> {}, retained |-> {}]

\* a provider record; api_key is a key of the record only when one was given
Provider(name, url, models) == [name |-> name, api_base_url |-> url, models |-> models]

ProviderWithKey(name, url, models, key) ==
    [name |-> name, api_base_url |-> url, models |-> models, api_key |-> key]

(* ------------------------------ inputs -------------------------------- *)
UnknownProvider == <<"p0">>
UnknownModel == <<"m0">>

RouterTypeInputs == valid_types \cup {THRESHOLD}

ModelValueInputs ==
    { Join(p, m) : p \in ProviderNames, m \in ModelNames }
        \cup ModelNames
        \cup { Join(UnknownProvider, M1), Join(P1, UnknownModel),
               <<BLANK, "p2", BLANK, COMMA, BLANK, "m1", BLANK>>, <<"m2", BLANK>> }

Thresholds == 0..MaxThreshold

Responses == { <<BLANK, "Y">>, <<"n">>, <<"y", "e", "s">> }

\* str.lower() on the letters a confirmation is typed with
Lower(s) == [i \in 1..Len(s) |-> IF s[i] = "Y" THEN "y" ELSE IF s[i] = "N" THEN "n" ELSE s[i]]

\* a variant that is content with an answer starting with y
Confirmed_by_first_letter(auto_confirm, response) ==
    auto_confirm \/ (Strip(response) # <<>> /\ Lower(Strip(response))[1] = "y")

\* input("ARE YOU SURE?! [y/N]: ").strip().lower() != "y" cancels the command
Confirmed(auto_confirm, response) == auto_confirm \/ Lower(Strip(response)) = <<"y">>

Confirmations == { <<TRUE, <<>> >> } \cup { <<FALSE, r>> : r \in Responses }

Ready == ~sweep.active /\ commands < MaxCommands

Ran(op, exit, note, args, config) ==
    /\ file' = config
    /\ last' = [op |-> op, exit |-> exit, note |-> note, args |-> args]
    /\ commands' = commands + 1
    /\ UNCHANGED <<sweep, procs>>

(* ------------------------------ commands ------------------------------ *)
\* a variant that takes the first of several matching providers
final_value_first_match(config, router_type, model_value) ==
    IF router_type \notin valid_types THEN <<>>
    ELSE IF HasComma(model_value)
    THEN LET provider_name == Strip(Split1(model_value)[1])
             model_name == Strip(Split1(model_value)[2])
         IN  IF validate_provider_model(config, provider_name, model_name)
             THEN Join(provider_name, model_name)
             ELSE <<>>
    ELSE LET model_name == Strip(model_value)
             matching_providers == find_providers_for_model(config, model_name)
         IN  IF Len(matching_providers) = 0 THEN <<>>
             ELSE Join(matching_providers[1], model_name)

\* the value change_router stores, or <<>> when it exits with status 1
final_value(config, router_type, model_value) ==
    IF router_type \notin valid_types THEN <<>>
    ELSE IF HasComma(model_value)
    THEN LET provider_name == Strip(Split1(model_value)[1])
             model_name == Strip(Split1(model_value)[2])
         IN  IF validate_provider_model(config, provider_name, model_name)
             THEN Join(provider_name, model_name)
             ELSE <<>>
    ELSE LET model_name == Strip(model_value)
             matching_providers == find_providers_for_model(config, model_name)
         IN  IF Len(matching_providers) = 0 THEN <<>>
             ELSE IF Len(matching_providers) > 1 THEN <<>>
             ELSE Join(matching_providers[1], model_name)

change_router ==
    \E router_type \in RouterTypeInputs, model_value \in ModelValueInputs :
        LET value == final_value(file, router_type, model_value)
            args == [router_type |-> router_type, model_value |-> model_value]
        IN  /\ Ready
            /\ IF value = <<>>
               THEN Ran("change", 1, "error", args, file)
               ELSE Ran("change", 0, "updated", args,
                        update_router_config(file,
                            Put(get_router_config(file), router_type, StrVal(value))))

\* ConfigManager.validate_provider_endpoint.  A URL is tokens too: "http://h1/v1/" is
\* <<"h1", "/", "v1", "/">>.  first and second are the answers of the two GET probes:
\* "2xx", "404", "4xx" (another 4xx), "other" (any other status) or "error" (no answer).
SLASH == "/"
V1 == <<SLASH, "v1">>
V1_SLASH == <<SLASH, "v1", SLASH>>
MODELS == <<SLASH, "models">>

\* base_url.rstrip('/')
RECURSIVE RStripSlash(_)
RStripSlash(s) ==
    IF s # <<>> /\ s[Len(s)] = SLASH THEN RStripSlash(SubSeq(s, 1, Len(s) - 1)) ELSE s

\* sub in s
HasSub(s, sub) == \E i \in 1..(Len(s) - Len(sub) + 1) : SubSeq(s, i, i + Len(sub) - 1) = sub

\* s[:s.find(sub)] of a string that holds sub
BeforeSub(s, sub) ==
    LET i == CHOOSE k \in 1..(Len(s) - Len(sub) + 1) :
                 /\ SubSeq(s, k, k + Len(sub) - 1) = sub
                 /\ \A j \in 1..(k - 1) : SubSeq(s, j, j + Len(sub) - 1) # sub
    IN  SubSeq(s, 1, i - 1)

\* base_url[:-3], "/v1" being two tokens
DropV1(base_url) == SubSeq(base_url, 1, Len(base_url) - Len(V1))

v1_url(base_url) ==
    IF EndsWith(base_url, V1) THEN base_url \o MODELS
    ELSE IF HasSub(base_url, V1_SLASH) THEN BeforeSub(base_url, V1_SLASH) \o V1 \o MODELS
    ELSE base_url \o V1 \o MODELS

no_v1_url(base_url) ==
    IF EndsWith(base_url, V1) THEN DropV1(base_url) \o MODELS
    ELSE IF HasSub(base_url, V1_SLASH) THEN BeforeSub(base_url, V1_SLASH) \o MODELS
    ELSE base_url \o MODELS

validate_provider_endpoint(raw_url, first, second) ==
    LET base_url == RStripSlash(raw_url)
        with_v1 == IF EndsWith(base_url, V1) THEN base_url ELSE base_url \o V1
        without_v1 == IF EndsWith(base_url, V1) THEN DropV1(base_url) ELSE base_url
        should_try_without_v1 == first \in {"404", "error"}
    IN  IF first \in {"2xx", "4xx"} THEN with_v1
        ELSE IF should_try_without_v1 /\ second \in {"2xx", "404", "4xx"} THEN without_v1
        ELSE base_url

\* a variant that tries the other candidate after any answer that settles nothing
validate_provider_endpoint_probes_unless_settled(raw_url, first) ==
    LET base_url == RStripSlash(raw_url)
        should_try_without_v1 == first \notin {"2xx", "4xx"}
    IN  IF should_try_without_v1
        THEN << v1_url(base_url), no_v1_url(base_url) >>
        ELSE << v1_url(base_url) >>

\* the GET requests validate_provider_endpoint issues, in order: the /v1 candidate,
\* then the other one when should_try_without_v1 was set
validate_provider_endpoint_probes(raw_url, first) ==
    LET base_url == RStripSlash(raw_url)
        should_try_without_v1 == first \in {"404", "error"}
    IN  IF should_try_without_v1
        THEN << v1_url(base_url), no_v1_url(base_url) >>
        ELSE << v1_url(base_url) >>

ProbeAnswers == { <<"2xx", "2xx">>, <<"404", "2xx">>, <<"error", "other">> }

RawUrls == { H1, H2, <<"h0", SLASH>> }

ApiKeys == { <<>>, <<"k1">> }

add_provider ==
    \E name \in ProviderNames \cup {UnknownProvider}, base_url \in RawUrls,
       api_key \in ApiKeys, probes \in ProbeAnswers :
        LET validated_base_url == validate_provider_endpoint(base_url, probes[1], probes[2])
            provider == IF api_key # <<>>
                        THEN ProviderWithKey(name, validated_base_url, <<>>, api_key)
                        ELSE Provider(name, validated_base_url, <<>>)
            r == ConfigManager_add_provider(file, provider)
            args == [name |-> name, base_url |-> base_url, api_key |-> api_key,
                     provider |-> provider]
        IN  /\ Ready
            /\ Len(file.Providers) <= MaxProviders
            /\ IF r.raised
               THEN Ran("add provider", 1, "error", args, r.config)
               ELSE Ran("add provider", 0, "added", args, r.config)

add_model ==
    \E provider \in ProviderNames \cup {UnknownProvider}, model_name \in ModelNames :
        LET r == add_model_to_provider(file, provider, model_name)
            args == [provider |-> provider, model_name |-> model_name]
        IN  /\ Ready
            /\ IF r.raised
               THEN Ran("add model", 1, "error", args, r.config)
               ELSE Ran("add model", 0, "added", args, r.config)

delete_provider ==
    \E provider_name \in ProviderNames \cup {UnknownProvider}, c \in Confirmations :
        LET r == ConfigManager_delete_provider(file, provider_name)
            args == [provider_name |-> provider_name, auto_confirm |-> c[1], response |-> c[2]]
        IN  /\ Ready
            /\ IF ~Confirmed(c[1], c[2])
               THEN Ran("delete provider", 0, "cancelled", args, file)
               ELSE IF r.raised
               THEN Ran("delete provider", 1, "error", args, r.config)
               ELSE Ran("delete provider", 0, "deleted", args, r.config)

\* a variant that knows the comma-less form alone
is_long_context_model_exact(router_config, model_name) ==
    /\ "longContext" \in DOMAIN router_config
    /\ router_config["longContext"].str = model_name

\* long_context and (long_context.endswith(f",{model_name}") or long_context == model_name)
is_long_context_model(router_config, model_name) ==
    LET long_context == IF "longContext" \in DOMAIN router_config
                        THEN router_config["longContext"].str
                        ELSE <<>>
    IN  /\ long_context # <<>>
        /\ \/ EndsWith(long_context, <<COMMA>> \o model_name)
           \/ long_context = model_name

delete_model ==
    \E model_name \in ModelNames \cup {UnknownModel}, c \in Confirmations :
        LET router_config == get_router_config(file)
            has_threshold == THRESHOLD \in DOMAIN router_config
            r == ConfigManager_delete_model(file, model_name)
            args == [model_name |-> model_name, auto_confirm |-> c[1], response |-> c[2]]
        IN  /\ Ready
            /\ IF ~Confirmed(c[1], c[2])
               THEN Ran("delete model", 0, "cancelled", args, file)
               ELSE IF r.raised
               THEN Ran("delete model", 1, "error", args, r.config)
               ELSE IF is_long_context_model(router_config, model_name) /\ has_threshold
               THEN Ran("delete model", 0, "deleted, also removed longContextThreshold", args,
                        update_router_config(r.config,
                            Pop(get_router_config(r.config), THRESHOLD)))
               ELSE Ran("delete model", 0, "deleted", args, r.config)

\* a variant that removes the threshold with any assignment
removed_threshold_any_type(router_config, router_type) ==
    THRESHOLD \in DOMAIN router_config

\* router_type == "longContext" and "longContextThreshold" in router_config
removed_threshold(router_config, router_type) ==
    router_type = "longContext" /\ THRESHOLD \in DOMAIN router_config

delete_router ==
    \E router_type \in RouterTypeInputs, c \in Confirmations :
        LET router_config == get_router_config(file)
            cascaded == IF removed_threshold(router_config, router_type)
                        THEN Pop(router_config, THRESHOLD)
                        ELSE router_config
            args == [router_type |-> router_type, auto_confirm |-> c[1], response |-> c[2]]
        IN  /\ Ready
            /\ IF router_type \notin deletable_types
               THEN Ran("delete router", 1, "error", args, file)
               ELSE IF ~Confirmed(c[1], c[2])
               THEN Ran("delete router", 0, "cancelled", args, file)
               ELSE IF router_type \notin DOMAIN router_config
               THEN Ran("delete router", 0, "not set", args, file)
               ELSE Ran("delete router", 0,
                        IF cascaded # router_config
                        THEN "deleted, also removed longContextThreshold" ELSE "deleted",
                        args, update_router_config(file, Pop(cascaded, router_type)))

\* a variant that takes an empty assignment for an assignment
long_context_absent(router_config) == "longContext" \notin DOMAIN router_config

\* not long_context: the key is absent or holds the empty string
long_context_unset(router_config) ==
    \/ "longContext" \notin DOMAIN router_config
    \/ router_config["longContext"].str = <<>>

set_long_context_threshold ==
    \E threshold \in Thresholds :
        LET router_config == get_router_config(file)
            args == [threshold |-> threshold]
        IN  /\ Ready
            /\ IF long_context_unset(router_config)
               THEN Ran("set threshold", 1, "error", args, file)
               ELSE Ran("set threshold", 0, "updated", args,
                        update_router_config(file,
                            Put(router_config, THRESHOLD, IntVal(threshold))))

(* ---------------------------- update sweep ---------------------------- *)
\* what fetch_models_from_endpoint may return for a provider, as a set
FetchNames == ModelNames

\* the orders in which a for loop may run over the set S
Orders(S) == { o \in [1..Cardinality(S) -> S] : \A i, j \in DOMAIN o : o[i] = o[j] => i = j }

\* a variant that protects the default assignment's model alone
used_models_default_only(router_config) ==
    { Strip(RSplit1(router_config[k].str)[2]) :
        k \in { t \in DOMAIN router_config :
                  /\ t = "default"
                  /\ IsStr(router_config[t])
                  /\ HasComma(router_config[t].str) } }

\* the models the Router section uses: the part after the last comma of every string
\* value that holds a comma, longContextThreshold left out
used_models(router_config) ==
    { Strip(RSplit1(router_config[k].str)[2]) :
        k \in { t \in DOMAIN router_config :
                  /\ t # THRESHOLD
                  /\ IsStr(router_config[t])
                  /\ HasComma(router_config[t].str) } }

\* for model in models_to_add: add_model_to_provider, reported unless it raised
RECURSIVE add_models(_, _, _)
add_models(config, provider_name, order) ==
    IF order = <<>> THEN [config |-> config, added |-> {}]
    ELSE LET r == add_model_to_provider(config, provider_name, Head(order))
             rest == add_models(r.config, provider_name, Tail(order))
         IN  [config |-> rest.config,
              added |-> rest.added \cup (IF r.raised THEN {} ELSE {Head(order)})]

\* for model in models_to_remove: a model used by the Router is retained, another is
\* deleted with ConfigManager.delete_model and reported as removed unless that raised
RECURSIVE remove_models(_, _, _)
remove_models(config, used, order) ==
    IF order = <<>> THEN [config |-> config, removed |-> {}, retained |-> {}]
    ELSE IF Head(order) \in used
    THEN LET rest == remove_models(config, used, Tail(order))
         IN  [rest EXCEPT !.retained = @ \cup {Head(order)}]
    ELSE LET r == ConfigManager_delete_model(config, Head(order))
             rest == remove_models(r.config, used, Tail(order))
         IN  [rest EXCEPT !.removed = @ \cup (IF r.raised THEN {} ELSE {Head(order)})]

\* update_models up to its loop: the providers are read once, before the loop
update_models ==
    /\ Ready
    /\ IF get_providers(file) = <<>>
       THEN Ran("update", 0, "no providers", << >>, file)
       ELSE /\ sweep' = [Idle EXCEPT !.active = TRUE, !.providers = get_providers(file)]
            /\ last' = [op |-> "update", exit |-> 0, note |-> "running", args |-> << >>]
            /\ commands' = commands + 1
            /\ UNCHANGED <<file, procs>>

\* a variant without the "if not fetched_models" guard
reconcile_provider_unguarded(config, provider, fetched_models, add_order, remove_order) ==
    LET current_models == ToSet(provider.models)
        a == add_models(config, provider.name, add_order)
        used == used_models(get_router_config(a.config))
        r == remove_models(a.config, used, remove_order)
    IN  [config |-> r.config, used |-> used, added |-> a.added,
         removed |-> r.removed,
         retained |-> r.retained \cup (current_models \cap fetched_models)]

\* the body of the loop of update_models for one provider of the snapshot: what it
\* leaves on disk and what it appends to the three report lists
reconcile_provider(config, provider, fetched_models, add_order, remove_order) ==
    LET current_models == ToSet(provider.models)
        models_to_retain == current_models \cap fetched_models
    IN  IF fetched_models = {}
        THEN [config |-> config, used |-> {}, added |-> {}, removed |-> {},
              retained |-> current_models]
        ELSE LET a == add_models(config, provider.name, add_order)
                 used == used_models(get_router_config(a.config))
                 r == remove_models(a.config, used, remove_order)
             IN  [config |-> r.config, used |-> used, added |-> a.added,
                  removed |-> r.removed, retained |-> r.retained \cup models_to_retain]

\* one pass of the loop of update_models, for the next provider of the snapshot
update_models_provider ==
    /\ sweep.active
    /\ sweep.next <= Len(sweep.providers)
    /\ \E fetched_models \in SUBSET FetchNames :
        LET provider == sweep.providers[sweep.next]
            current_models == ToSet(provider.models)
            tag(S) == { <<provider.name, m>> : m \in S }
        IN  \E add_order \in Orders(fetched_models \ current_models),
               remove_order \in Orders(current_models \ fetched_models) :
                LET r == reconcile_provider(file, provider, fetched_models,
                                            add_order, remove_order)
                IN  /\ file' = r.config
                    /\ sweep' = [sweep EXCEPT
                                    !.next = @ + 1,
                                    !.name = provider.name,
                                    !.stored = current_models,
                                    !.fetched = fetched_models,
                                    !.protected = r.used,
                                    !.added = @ \cup tag(r.added),
                                    !.removed = @ \cup tag(r.removed),
                                    !.retained = @ \cup tag(r.retained)]
                    /\ UNCHANGED <<last, commands, procs>>

\* the report that ends update_models
update_models_report ==
    /\ sweep.active
    /\ sweep.next > Len(sweep.providers)
    /\ last' = [op |-> "update", exit |-> 0, note |-> "completed",
                args |-> [added |-> sweep.added, removed |-> sweep.removed,
                          retained |-> sweep.retained]]
    /\ sweep' = Idle
    /\ UNCHANGED <<file, commands, procs>>

\* update_models stops inside its loop or before its report: the invocation is killed,
\* or an exception that is not a ValueError of one model (a fetch that raises, a save
\* that fails) reaches "except Exception" and exits with status 1.  What the pass had
\* saved so far stays on disk: the additions and removals of the pass up to step n.
update_models_stop ==
    /\ sweep.active
    /\ IF sweep.next > Len(sweep.providers)
       THEN file' = file
       ELSE \E fetched_models \in SUBSET FetchNames :
              LET provider == sweep.providers[sweep.next]
                  current_models == ToSet(provider.models)
              IN  \E add_order \in Orders(fetched_models \ current_models),
                     remove_order \in Orders(current_models \ fetched_models) :
                      \E n \in 0..(Len(add_order) + Len(remove_order)) :
                          LET done_add == IF n < Len(add_order) THEN n ELSE Len(add_order)
                              r == reconcile_provider(file, provider, fetched_models,
                                       SubSeq(add_order, 1, done_add),
                                       SubSeq(remove_order, 1, n - done_add))
                          IN  file' = r.config
    /\ last' = [op |-> "update", exit |-> 1, note |-> "stopped", args |-> << >>]
    /\ sweep' = Idle
    /\ UNCHANGED <<commands, procs>>

(* --------------------------- initial states --------------------------- *)
\* A run starts from a document the commands can have written (distinct provider
\* names and URLs, models lists without a repeated name, assignments left behind by
\* deleted providers and models) or that was edited by hand (a comma-less or empty
\* longContext, a key the tool does not know).

\* the lists of distinct models a provider may start with
InitModels == { <<>>, <<M1>>, <<M2>>, <<M1, M2>>, <<M2, M1>> }

InitProviders ==
    { <<>> } \cup
    { << Provider(P1, H1, a) >> : a \in { <<M1>>, <<M1, M2>> } } \cup
    { << Provider(P1, H1, a), ProviderWithKey(P2, H2 \o V1, b, <<"k2">>) >> :
        a \in InitModels, b \in InitModels }

InitRouters ==
    { << >>,
      [default |-> StrVal(Join(P1, M1))],
      [default |-> StrVal(Join(P1, M1)), longContext |-> StrVal(Join(P1, M1)),
       longContextThreshold |-> IntVal(1)],
      [longContext |-> StrVal(Join(P1, M2)), background |-> StrVal(Join(P2, M2))],
      [default |-> StrVal(Join(P1, M2)), longContext |-> StrVal(M1),
       longContextThreshold |-> IntVal(0), webSearch |-> StrVal(Join(P2, M1)),
       custom |-> IntVal(7)],
      [think |-> StrVal(Join(P2, Join(M1, M2))), longContext |-> StrVal(<<>>),
       background |-> StrVal(M1), custom |-> StrVal(Join(<<"x">>, M2))] }

Init ==
    /\ file \in { [Router |-> r, Providers |-> ps, LOG |-> TRUE] :
                    r \in InitRouters, ps \in InitProviders }
    /\ last = [op |-> "none", exit |-> 0, note |-> "", args |-> << >>]
    /\ sweep = Idle
    /\ commands = 0
    /\ procs = NoProcs

Next ==
    \/ change_router
    \/ add_provider
    \/ add_model
    \/ delete_provider
    \/ delete_model
    \/ delete_router
    \/ set_long_context_threshold
    \/ update_models
    \/ update_models_provider
    \/ update_models_report
    \/ update_models_stop

Spec == Init /\ [][Next]_vars

(* ------------------------- the HTTP functions ------------------------- *)
\* validate_provider_endpoint and fetch_models_from_endpoint read no document: they
\* are called here on their own, on URLs of every shape and with every answer of the
\* two endpoints.  last holds the call, its arguments and, as note, what it returned.

MaxTrailingSlashes == 2     \* the slashes a given URL may end with

RECURSIVE Slashes(_)
Slashes(n) == IF n = 0 THEN <<>> ELSE <<SLASH>> \o Slashes(n - 1)

\* "http://h1", "http://h1/v1", "http://h1/v1/x", "http://h1/x/v1", "http://h1/v1/x/v1",
\* each with trailing slashes
EndpointUrls ==
    { u \o Slashes(n) :
        u \in { H1, H1 \o V1, H1 \o V1 \o <<SLASH, "x">>, H1 \o <<SLASH, "x">> \o V1,
                H1 \o V1 \o <<SLASH, "x">> \o V1 },
        n \in 0..MaxTrailingSlashes }

\* what a GET may come to: a 2xx status, 404, another 4xx status, any other status,
\* or a RequestException
ProbeStatuses == {"2xx", "404", "4xx", "other", "error"}

call_validate_provider_endpoint ==
    \E base_url \in EndpointUrls, first \in ProbeStatuses, second \in ProbeStatuses :
        /\ commands < MaxCommands
        /\ commands' = commands + 1
        /\ last' = [op |-> "validate_provider_endpoint", exit |-> 0,
                    note |-> validate_provider_endpoint(base_url, first, second),
                    args |-> [base_url |-> base_url, first |-> first, second |-> second,
                              probes |-> validate_provider_endpoint_probes(base_url, first)]]
        /\ UNCHANGED <<file, sweep, procs>>

\* The body of a 200 answer, as response.json() reads it: a JSON object (its members),
\* a JSON array (its items), a JSON string, another JSON value (null, a number, a
\* boolean), or text that is not JSON.
Item(id) == [id |-> id]

NoId == [object |-> "model"]

Bodies ==
    { [json |-> "object", members |-> [data |-> <<Item(M1), NoId, Item(M2)>>]],
      [json |-> "object", members |-> [data |-> << >>]],
      [json |-> "object", members |-> [models |-> <<M2, M1>>]],
      [json |-> "object", members |-> [data |-> <<Item(M1)>>, models |-> <<M2>>]],
      [json |-> "object", members |-> [error |-> <<"denied">>]],
      [json |-> "array", items |-> <<M1, M2>>],
      [json |-> "array", items |-> << <<"data">>, M1 >>],
      [json |-> "string"],
      [json |-> "scalar"],
      [json |-> "invalid"] }

\* an answer to requests.get: status 200 with a body, 401, 404, another status, or a
\* RequestException
Answers ==
    { [status |-> "200", body |-> b] : b \in Bodies }
        \cup { [status |-> x] : x \in {"401", "404", "other", "error"} }

\* if base_url.endswith('/'): base_url = base_url[:-1]
DropOneSlash(base_url) ==
    IF base_url # <<>> /\ base_url[Len(base_url)] = SLASH
    THEN SubSeq(base_url, 1, Len(base_url) - 1)
    ELSE base_url

urls_to_try(base_url) ==
    << v1_url(DropOneSlash(base_url)), no_v1_url(DropOneSlash(base_url)) >>

\* What the body of the loop of fetch_models_from_endpoint comes to for one answer:
\* "return" with a list, "continue", or "raise".  json_error_is_request_exception
\* tells whether the installed requests raises its JSONDecodeError as a
\* RequestException (it then is caught by the loop) or as a plain ValueError.
try_url(answer, json_error_is_request_exception) ==
    IF answer.status # "200" THEN [how |-> "continue"]
    ELSE LET data == answer.body
         IN  IF data.json = "invalid"
             THEN IF json_error_is_request_exception
                  THEN [how |-> "continue"]
                  ELSE [how |-> "raise"]
             ELSE IF data.json = "scalar"
             THEN [how |-> "raise"]     \* "data" in None: TypeError
             ELSE IF data.json = "string"
             THEN [how |-> "return", models |-> << >>]
             ELSE IF data.json = "array"
             THEN IF Contains(data.items, <<"data">>)
                  THEN [how |-> "raise"]     \* data["data"] of a list: TypeError
                  ELSE IF Contains(data.items, <<"models">>)
                  THEN [how |-> "raise"]
                  ELSE [how |-> "return", models |-> data.items]
             ELSE IF "data" \in DOMAIN data.members
             THEN LET with_id == SelectSeq(data.members["data"],
                                           LAMBDA item : "id" \in DOMAIN item)
                  IN  [how |-> "return",
                       models |-> [i \in 1..Len(with_id) |-> with_id[i].id]]
             ELSE IF "models" \in DOMAIN data.members
             THEN [how |-> "return", models |-> data.members["models"]]
             ELSE [how |-> "return", models |-> << >>]

\* fetch_models_from_endpoint: answers[i] is what the GET of urls_to_try[i] comes to.
\* The result tells the URLs that were requested, in order, whether an exception left
\* the function, and the list returned.
fetch_models_from_endpoint(base_url, answers, json_error_is_request_exception) ==
    LET urls == urls_to_try(base_url)
        first == try_url(answers[1], json_error_is_request_exception)
        second == try_url(answers[2], json_error_is_request_exception)
    IN  IF first.how = "return"
        THEN [tried |-> <<urls[1]>>, raised |-> FALSE, models |-> first.models]
        ELSE IF first.how = "raise"
        THEN [tried |-> <<urls[1]>>, raised |-> TRUE, models |-> << >>]
        ELSE IF second.how = "return"
        THEN [tried |-> urls, raised |-> FALSE, models |-> second.models]
        ELSE IF second.how = "raise"
        THEN [tried |-> urls, raised |-> TRUE, models |-> << >>]
        ELSE [tried |-> urls, raised |-> FALSE, models |-> << >>]

FetchUrls == { H1, H1 \o V1 \o <<SLASH>>, H1 \o V1 \o <<SLASH, "x">> }

call_fetch_models_from_endpoint ==
    \E base_url \in FetchUrls, first \in Answers, second \in Answers,
       json_error_is_request_exception \in BOOLEAN :
        /\ commands < MaxCommands
        /\ commands' = commands + 1
        /\ last' = [op |-> "fetch_models_from_endpoint", exit |-> 0,
                    note |-> fetch_models_from_endpoint(base_url, <<first, second>>,
                                                        json_error_is_request_exception),
                    args |-> [base_url |-> base_url, answers |-> <<first, second>>,
                              json_error_is_request_exception |->
                                  json_error_is_request_exception]]
        /\ UNCHANGED <<file, sweep, procs>>

InitCalls ==
    /\ file = [Router |-> << >>, Providers |-> << >>, LOG |-> TRUE]
    /\ last = [op |-> "none", exit |-> 0, note |-> "", args |-> << >>]
    /\ sweep = Idle
    /\ commands = 0
    /\ procs = NoProcs

NextCalls ==
    \/ call_validate_provider_endpoint
    \/ call_fetch_models_from_endpoint

SpecCalls == InitCalls /\ [][NextCalls]_vars

(* ------------------------ commands step by step ----------------------- *)
\* The commands once more, as the sequence of ConfigManager calls each one makes: a
\* step is one load_config or one save_config, and the steps of two invocations on
\* the same file interleave.  A call that reads (get_router_config, get_providers) is
\* one load; a call that writes is a load and then a save.  An invocation may stop
\* at any point (crash).  A save is one step: the file is replaced at once.

\* a variant that writes the keys the invocation changed and leaves the others as they
\* are on disk
write_changed_keys(disk, loaded, config) ==
    [k \in DOMAIN config |->
        IF k \in DOMAIN disk /\ k \in DOMAIN loaded /\ config[k] = loaded[k]
        THEN disk[k]
        ELSE config[k]]

\* open(config_path, "w") and json.dump(config): what is on disk and what was loaded
\* play no part
write(disk, loaded, config) == config

StepConfirmations == { <<TRUE, << >> >>, <<FALSE, <<"n">> >> }

StepCommands ==
    { [op |-> "change", args |-> [router_type |-> t, model_value |-> v]] :
        t \in {"longContext", "think", THRESHOLD},
        v \in {Join(P1, M1), M2, Join(UnknownProvider, M1)} }
    \cup
    { [op |-> "add provider",
       args |-> [name |-> n, base_url |-> u, api_key |-> << >>,
                 provider |-> Provider(n, validate_provider_endpoint(u, "error", "error"),
                                       << >>)]] :
        n \in {P1, UnknownProvider}, u \in {H1, <<"h0", SLASH>>} }
    \cup
    { [op |-> "add model", args |-> [provider |-> n, model_name |-> m]] :
        n \in {P1, UnknownProvider}, m \in ModelNames }
    \cup
    { [op |-> "delete provider",
       args |-> [provider_name |-> n, auto_confirm |-> c[1], response |-> c[2]]] :
        n \in {P2, UnknownProvider}, c \in StepConfirmations }
    \cup
    { [op |-> "delete model",
       args |-> [model_name |-> m, auto_confirm |-> c[1], response |-> c[2]]] :
        m \in {M1, UnknownModel}, c \in StepConfirmations }
    \cup
    { [op |-> "delete router",
       args |-> [router_type |-> t, auto_confirm |-> c[1], response |-> c[2]]] :
        t \in {"longContext", "webSearch", "default"}, c \in StepConfirmations }
    \cup
    { [op |-> "set threshold", args |-> [threshold |-> n]] : n \in Thresholds }

\* the invocation is over: its locals are gone
Finish(pr, exit, note) ==
    [NotStarted EXCEPT !.op = pr.op, !.args = pr.args, !.pc = "done",
                       !.exit = exit, !.note = note, !.saves = pr.saves, !.stale = pr.stale]

\* the first ConfigManager call of each command
first_call ==
    [c \in {"change", "add provider"} |-> "check"]
        @@ [c \in {"add model", "delete provider"} |-> "method"]
        @@ [c \in {"delete model", "delete router", "set threshold"} |-> "get_router"]

\* what a command does before it calls ConfigManager: the router type is checked and
\* the confirmation is asked for
begin(p) ==
    \E cmd \in StepCommands :
        LET pr == [NotStarted EXCEPT !.op = cmd.op, !.args = cmd.args]
            deletes == cmd.op \in {"delete provider", "delete model", "delete router"}
        IN  /\ procs[p].pc = "idle"
            /\ procs' = [procs EXCEPT ![p] =
                  IF cmd.op = "change" /\ cmd.args.router_type \notin valid_types
                  THEN Finish(pr, 1, "error")
                  ELSE IF cmd.op = "delete router" /\ cmd.args.router_type \notin deletable_types
                  THEN Finish(pr, 1, "error")
                  ELSE IF deletes /\ ~Confirmed(cmd.args.auto_confirm, cmd.args.response)
                  THEN Finish(pr, 0, "cancelled")
                  ELSE [pr EXCEPT !.pc = first_call[cmd.op]]]
            /\ UNCHANGED <<file, last, sweep, commands>>

\* One load_config of invocation pr, which reads the document config: the call the
\* invocation is at runs up to its save_config, or the command ends.
after_load(pr, config) ==
    LET router_config == get_router_config(config)
        op == pr.op
        args == pr.args
    IN  IF pr.pc = "check" /\ op = "change"
        \* validate_provider_model or find_providers_for_model
        THEN IF final_value(config, args.router_type, args.model_value) = << >>
             THEN Finish(pr, 1, "error")
             ELSE [pr EXCEPT !.pc = "get_router",
                             !.final_value = final_value(config, args.router_type,
                                                         args.model_value)]
        ELSE IF pr.pc = "check"
        \* add provider: _check_duplicate_provider
        THEN IF check_duplicate_provider(config, args.provider)
             THEN Finish(pr, 1, "error")
             ELSE [pr EXCEPT !.pc = "method"]
        ELSE IF pr.pc = "get_router" /\ op = "change"
        THEN [pr EXCEPT !.pc = "update",
                        !.router_config = Put(router_config, args.router_type,
                                              StrVal(pr.final_value))]
        ELSE IF pr.pc = "get_router" /\ op = "set threshold"
        THEN IF long_context_unset(router_config)
             THEN Finish(pr, 1, "error")
             ELSE [pr EXCEPT !.pc = "update",
                             !.router_config = Put(router_config, THRESHOLD,
                                                   IntVal(args.threshold))]
        ELSE IF pr.pc = "get_router" /\ op = "delete router"
        THEN IF args.router_type \notin DOMAIN router_config
             THEN Finish(pr, 0, "not set")
             ELSE [pr EXCEPT !.pc = "update",
                             !.router_config =
                                 Pop(IF removed_threshold(router_config, args.router_type)
                                     THEN Pop(router_config, THRESHOLD)
                                     ELSE router_config,
                                     args.router_type)]
        ELSE IF pr.pc = "get_router"
        \* delete model: is_long_context_model and has_threshold
        THEN [pr EXCEPT !.pc = "method",
                        !.cascade = /\ is_long_context_model(router_config, args.model_name)
                                    /\ THRESHOLD \in DOMAIN router_config]
        ELSE IF pr.pc = "get_router_again"
        \* delete model, the cascade: router_config.pop("longContextThreshold", None)
        THEN [pr EXCEPT !.pc = "update", !.router_config = Pop(router_config, THRESHOLD)]
        ELSE IF pr.pc = "update"
        \* update_router_config up to its save_config
        THEN [pr EXCEPT !.pc = "save", !.config = config,
                        !.pending = update_router_config(config, pr.router_config)]
        ELSE IF op = "add provider"
        \* ConfigManager.add_provider after its check, up to its save_config
        THEN [pr EXCEPT !.pc = "save", !.config = config,
                        !.pending = stored([config EXCEPT
                                               !.Providers = Append(@, args.provider)])]
        ELSE LET r == IF op = "add model"
                      THEN add_model_to_provider(config, args.provider, args.model_name)
                      ELSE IF op = "delete provider"
                      THEN ConfigManager_delete_provider(config, args.provider_name)
                      ELSE ConfigManager_delete_model(config, args.model_name)
             IN  IF r.raised
                 THEN Finish(pr, 1, "error")
                 ELSE IF op = "add model" /\ r.config = config
                 THEN Finish(pr, 0, "ok")      \* the model is listed: nothing is saved
                 ELSE [pr EXCEPT !.pc = "save", !.config = config, !.pending = r.config]

load(p) ==
    /\ procs[p].pc \in {"check", "get_router", "method", "get_router_again", "update"}
    /\ procs' = [procs EXCEPT ![p] = after_load(procs[p], file)]
    /\ UNCHANGED <<file, last, sweep, commands>>

\* One save_config of invocation p.  An invocation that has loaded what it is about
\* to write and has not saved yet holds, from now on, a copy that is out of date.
save(p) ==
    /\ procs[p].pc = "save"
    /\ file' = write(file, procs[p].config, procs[p].pending)
    /\ procs' = [q \in Invocations |->
                    IF q = p
                    THEN IF procs[p].op = "delete model" /\ procs[p].cascade
                            /\ procs[p].saves = 0
                         THEN [procs[p] EXCEPT !.pc = "get_router_again", !.saves = @ + 1]
                         ELSE Finish([procs[p] EXCEPT !.saves = @ + 1], 0, "ok")
                    ELSE IF procs[q].pc \in {"update", "save"}
                    THEN [procs[q] EXCEPT !.stale = TRUE]
                    ELSE procs[q]]
    /\ UNCHANGED <<last, sweep, commands>>

\* the invocation stops where it is
crash(p) ==
    /\ procs[p].pc \notin {"idle", "done", "crashed"}
    /\ procs' = [procs EXCEPT ![p] =
                    [NotStarted EXCEPT !.op = procs[p].op, !.args = procs[p].args,
                                       !.pc = "crashed", !.saves = procs[p].saves]]
    /\ UNCHANGED <<file, last, sweep, commands>>

StepProviders ==
    { << Provider(P1, H1, a), ProviderWithKey(P2, H2 \o V1, <<M1, M2>>, <<"k2">>) >> :
        a \in { << >>, <<M1>> } }

StepRouters ==
    { [default |-> StrVal(Join(P1, M1)), longContext |-> StrVal(Join(P1, M1)),
       longContextThreshold |-> IntVal(1)],
      [longContext |-> StrVal(Join(P2, M2)), webSearch |-> StrVal(Join(P2, M1)),
       custom |-> IntVal(7)] }

InitSteps ==
    /\ file \in { [Router |-> r, Providers |-> ps, LOG |-> TRUE] :
                    r \in StepRouters, ps \in StepProviders }
    /\ last = [op |-> "none", exit |-> 0, note |-> "", args |-> << >>]
    /\ sweep = Idle
    /\ commands = 0
    /\ procs = NoProcs

NextSteps ==
    \E p \in Invocations :
        \/ begin(p)
        \/ load(p)
        \/ save(p)
        \/ crash(p)

SpecSteps == InitSteps /\ [][NextSteps]_vars

(* ------------------------------- claims ------------------------------- *)
\* the step runs the command op from start to end
Did(op) == last'.op = op /\ commands' = commands + 1

\* the step is one pass of the loop of update_models
Reconciled == sweep.active /\ sweep'.active /\ sweep'.next = sweep.next + 1

\* the providers (by position) whose models list holds m
Listing(config, m) ==
    { i \in 1..Len(config.Providers) : Contains(config.Providers[i].models, m) }

\* the longContext assignment of the Router section refers to model m
RefersTo(router, m) ==
    /\ "longContext" \in DOMAIN router
    /\ router["longContext"].str # <<>>
    /\ \/ EndsWith(router["longContext"].str, <<COMMA>> \o m)
       \/ router["longContext"].str = m

\* the Router entries, longContextThreshold apart, of the form "provider,model"
Assignments(router) ==
    { k \in DOMAIN router : k # THRESHOLD /\ IsStr(router[k]) /\ HasComma(router[k].str) }

\* C1: in an update sweep, the model named after the last comma of a Router entry
\* of the form "provider,model" (longContextThreshold apart) is removed from no
\* provider's list by any pass of the loop, and when the provider being reconciled
\* stores it while the fetched catalog lacks it, it is reported as retained and not
\* as removed.
C1_ReferencedModelKept ==
    [][ Reconciled =>
          \A k \in Assignments(file.Router) :
              LET m == RSplit1(file.Router[k].str)[2]
              IN  /\ Len(file'.Providers) = Len(file.Providers)
                  /\ \A i \in Listing(file, m) : i \in Listing(file', m)
                  /\ m \in sweep'.stored \ sweep'.fetched =>
                        /\ <<sweep'.name, m>> \in sweep'.retained
                        /\ <<sweep'.name, m>> \notin sweep'.removed ]_vars

C1_Witness ==
    /\ sweep.active
    /\ sweep.fetched # {}
    /\ \E k \in Assignments(file.Router) :
          LET m == RSplit1(file.Router[k].str)[2]
          IN  /\ m \in sweep.stored \ sweep.fetched
              /\ <<sweep.name, m>> \in sweep.retained
              /\ \E i \in Listing(file, m) : file.Providers[i].name = sweep.name

\* C2 (as amended): a confirmed delete-model command removes longContextThreshold
\* from the Router section if and only if some provider lists the model (so that the
\* deletion succeeds), the longContext assignment ends with ",<model>" or equals the
\* model, and the threshold was present; then the Router section loses that key
\* alone, and in every other case the Router section is left exactly as it was.  When
\* no provider lists the model the command exits with status 1 and changes nothing.
C2_ThresholdCascadeOnSuccessfulDelete ==
    [][ (Did("delete model") /\ Confirmed(last'.args.auto_confirm, last'.args.response)) =>
          LET m == last'.args.model_name
              cascade == /\ Listing(file, m) # {}
                         /\ RefersTo(file.Router, m)
                         /\ THRESHOLD \in DOMAIN file.Router
          IN  /\ (THRESHOLD \in DOMAIN file.Router /\ THRESHOLD \notin DOMAIN file'.Router)
                    <=> cascade
              /\ file'.Router = IF cascade THEN Pop(file.Router, THRESHOLD) ELSE file.Router
              /\ Listing(file, m) = {} => (last'.exit = 1 /\ file' = file) ]_vars

C2_Witness ==
    /\ last.op = "delete model"
    /\ last.exit = 0
    /\ last.note = "deleted, also removed longContextThreshold"
    /\ RefersTo(file.Router, last.args.model_name)
    /\ THRESHOLD \notin DOMAIN file.Router
    /\ Listing(file, last.args.model_name) = {}

\* C2 as stated: a confirmed delete-model command removes longContextThreshold if and
\* only if the model is the one the longContext assignment refers to and the
\* threshold was present.
C2_Original ==
    [][ (Did("delete model") /\ Confirmed(last'.args.auto_confirm, last'.args.response)) =>
          LET m == last'.args.model_name
              cascade == RefersTo(file.Router, m) /\ THRESHOLD \in DOMAIN file.Router
          IN  /\ (THRESHOLD \in DOMAIN file.Router /\ THRESHOLD \notin DOMAIN file'.Router)
                    <=> cascade
              /\ ~cascade => file'.Router = file.Router ]_vars

\* C3: set_long_context_threshold exits with status 1 and leaves the document as it
\* was when the Router section has no longContext assignment (absent or empty);
\* otherwise it exits with status 0 and the Router section then holds the given
\* integer under longContextThreshold and every other key as before.
C3_ThresholdNeedsLongContext ==
    [][ Did("set threshold") =>
          IF \/ "longContext" \notin DOMAIN file.Router
             \/ file.Router["longContext"].str = <<>>
          THEN last'.exit = 1 /\ file' = file
          ELSE /\ last'.exit = 0
               /\ DOMAIN file'.Router = DOMAIN file.Router \cup {THRESHOLD}
               /\ file'.Router[THRESHOLD] = IntVal(last'.args.threshold)
               /\ \A k \in DOMAIN file.Router \ {THRESHOLD} : file'.Router[k] = file.Router[k]
               /\ file'.Providers = file.Providers ]_vars

C3_Witness ==
    /\ last.op = "set threshold"
    /\ last.exit = 0
    /\ "longContext" \in DOMAIN file.Router
    /\ file.Router[THRESHOLD] = IntVal(last.args.threshold)

C3_WitnessRefused ==
    /\ last.op = "set threshold"
    /\ last.exit = 1
    /\ "longContext" \in DOMAIN file.Router
    /\ file.Router["longContext"].str = <<>>

\* C4: when change_router overwrites an existing longContext assignment while
\* longContextThreshold is present, the longContextThreshold key is removed from the
\* Router section.
C4_OverwriteRemovesThreshold ==
    [][ ( /\ Did("change")
          /\ last'.exit = 0
          /\ last'.args.router_type = "longContext"
          /\ "longContext" \in DOMAIN file.Router
          /\ THRESHOLD \in DOMAIN file.Router )
        => THRESHOLD \notin DOMAIN file'.Router ]_vars

\* C5: add_provider fails when a provider of the document has the name of the new
\* record or its api_base_url (either alone is enough), and then the document is
\* unchanged; otherwise the new record becomes the last provider and the records
\* before it are as they were.
C5_DuplicateProviderRejected ==
    [][ Did("add provider") =>
          LET new == last'.args.provider
              collides == \E i \in 1..Len(file.Providers) :
                              \/ file.Providers[i].name = new.name
                              \/ file.Providers[i].api_base_url = new.api_base_url
          IN  IF collides
              THEN last'.exit = 1 /\ file' = file
              ELSE /\ last'.exit = 0
                   /\ file'.Providers = Append(file.Providers, new)
                   /\ file'.Router = file.Router ]_vars

C5_Witness ==
    /\ last.op = "add provider"
    /\ last.exit = 1
    /\ \E i \in 1..Len(file.Providers) :
          /\ file.Providers[i].api_base_url = last.args.provider.api_base_url
          /\ file.Providers[i].models # last.args.provider.models
    /\ \A i \in 1..Len(file.Providers) : file.Providers[i].name # last.args.provider.name

\* C6: change_router with a bare model name (no comma) and a valid router type
\* stores "<provider>,<model>" under the router type when exactly one provider lists
\* the model, and exits with status 1 leaving the document unchanged when several
\* providers list it or none does.  The model is the given name without the blanks
\* around it.
C6_BareModelResolved ==
    [][ ( /\ Did("change")
          /\ last'.args.router_type \in valid_types
          /\ ~HasComma(last'.args.model_value) ) =>
          LET m == Strip(last'.args.model_value)
              holders == Listing(file, m)
          IN  IF Cardinality(holders) = 1
              THEN /\ last'.exit = 0
                   /\ \E i \in holders :
                         file'.Router = Put(file.Router, last'.args.router_type,
                                            StrVal(Join(file.Providers[i].name, m)))
                   /\ file'.Providers = file.Providers
              ELSE last'.exit = 1 /\ file' = file ]_vars

C6_Witness ==
    /\ last.op = "change"
    /\ last.exit = 1
    /\ last.args.router_type \in valid_types
    /\ ~HasComma(last.args.model_value)
    /\ Cardinality(Listing(file, Strip(last.args.model_value))) > 1

C6_WitnessStored ==
    /\ last.op = "change"
    /\ last.exit = 0
    /\ ~HasComma(last.args.model_value)
    /\ \E i \in Listing(file, Strip(last.args.model_value)) :
          file.Router[last.args.router_type] =
              StrVal(Join(file.Providers[i].name, Strip(last.args.model_value)))

\* C7: change_router with a value "provider,model" (the two names are the parts
\* before and after the first comma, without the blanks around them) succeeds only
\* when the router type is valid and a provider of that name lists that model, and it
\* then stores exactly "provider,model" under the router type; otherwise it exits with
\* status 1 and the document is unchanged.
C7_AssignmentValidated ==
    [][ (Did("change") /\ HasComma(last'.args.model_value)) =>
          LET provider_name == Strip(Split1(last'.args.model_value)[1])
              model_name == Strip(Split1(last'.args.model_value)[2])
              valid == /\ last'.args.router_type \in valid_types
                       /\ \E i \in Listing(file, model_name) :
                             file.Providers[i].name = provider_name
          IN  IF valid
              THEN /\ last'.exit = 0
                   /\ file'.Router = Put(file.Router, last'.args.router_type,
                                         StrVal(Join(provider_name, model_name)))
                   /\ file'.Providers = file.Providers
              ELSE last'.exit = 1 /\ file' = file ]_vars

C7_Witness ==
    /\ last.op = "change"
    /\ last.exit = 0
    /\ HasComma(last.args.model_value)
    /\ Contains(last.args.model_value, BLANK)
    /\ \E i \in 1..Len(file.Providers) :
          /\ Contains(file.Providers[i].models, M1)
          /\ file.Router[last.args.router_type] = StrVal(Join(file.Providers[i].name, M1))

\* C8: in an update sweep, a pass for a provider whose fetch returns an empty catalog
\* leaves the document as it was, reports nothing as added or removed, and reports
\* every model of that provider's stored list as retained.
C8_EmptyFetchKeepsEverything ==
    [][ (Reconciled /\ sweep'.fetched = {}) =>
          /\ file' = file
          /\ sweep'.added = sweep.added
          /\ sweep'.removed = sweep.removed
          /\ \A m \in ToSet(sweep.providers[sweep.next].models) :
                <<sweep'.name, m>> \in sweep'.retained
          /\ \A i \in 1..Len(file.Providers) :
                file.Providers[i].name = sweep'.name =>
                    \A m \in ToSet(file.Providers[i].models) :
                        <<sweep'.name, m>> \in sweep'.retained ]_vars

C8_Witness ==
    /\ sweep.active
    /\ sweep.next > 1
    /\ sweep.fetched = {}
    /\ Cardinality(sweep.stored) > 1
    /\ \A m \in sweep.stored : <<sweep.name, m>> \in sweep.retained
    /\ \E i \in 1..Len(file.Providers) :
          file.Providers[i].name = sweep.name /\ ToSet(file.Providers[i].models) = sweep.stored

\* C9: a confirmed delete of model m succeeds when at least one provider lists m, and
\* afterwards every provider's list is its old list without m, the other models in
\* their order; when no provider lists m it fails and the document is unchanged.
C9_DeleteModelEverywhere ==
    [][ (Did("delete model") /\ Confirmed(last'.args.auto_confirm, last'.args.response)) =>
          LET m == last'.args.model_name
          IN  IF Listing(file, m) # {}
              THEN /\ last'.exit = 0
                   /\ Listing(file', m) = {}
                   /\ Len(file'.Providers) = Len(file.Providers)
                   /\ \A i \in 1..Len(file.Providers) :
                         file'.Providers[i] =
                             [file.Providers[i] EXCEPT
                                 !.models = SelectSeq(@, LAMBDA x : x # m)]
              ELSE last'.exit = 1 /\ file' = file ]_vars

C9_Witness ==
    /\ last.op = "delete model"
    /\ last.exit = 0
    /\ Listing(file, last.args.model_name) = {}
    /\ Len(file.Providers) > 1
    /\ \A i \in 1..Len(file.Providers) : file.Providers[i].models # <<>>

\* no models list holds the same name twice
NoDuplicateModels ==
    \A i \in 1..Len(file.Providers) :
        \A j, k \in 1..Len(file.Providers[i].models) :
            file.Providers[i].models[j] = file.Providers[i].models[k] => j = k

\* C10: adding a model the named provider already lists succeeds and leaves the
\* document unchanged, adding a new one appends it to that provider's list, and a
\* missing provider fails with no change; and from a document without duplicates no
\* sequence of commands produces a models list that holds the same name twice.
C10_AddModelIdempotent ==
    /\ [][ Did("add model") =>
             LET m == last'.args.model_name
                 named == { i \in 1..Len(file.Providers) :
                              file.Providers[i].name = last'.args.provider }
             IN  IF named = {}
                 THEN last'.exit = 1 /\ file' = file
                 ELSE /\ last'.exit = 0
                      /\ \E i \in named :
                            file' = IF i \in Listing(file, m)
                                    THEN file
                                    ELSE [file EXCEPT !.Providers[i].models = Append(@, m)] ]_vars
    /\ []NoDuplicateModels

C10_Witness ==
    /\ last.op = "add model"
    /\ last.exit = 0
    /\ \E i \in Listing(file, last.args.model_name) :
          /\ file.Providers[i].name = last.args.provider
          /\ file.Providers[i].models[Len(file.Providers[i].models)] # last.args.model_name

\* C11: a confirmed delete of provider n fails with no change when no provider has
\* that name; otherwise the providers left are the old ones not named n, in their
\* old order, and the Router section is as it was, also when one of its assignments
\* names n.
C11_DeleteProviderNoCascade ==
    [][ (Did("delete provider") /\ Confirmed(last'.args.auto_confirm, last'.args.response)) =>
          LET n == last'.args.provider_name
              others == { i \in 1..Len(file.Providers) : file.Providers[i].name # n }
          IN  IF Cardinality(others) = Len(file.Providers)
              THEN last'.exit = 1 /\ file' = file
              ELSE /\ last'.exit = 0
                   /\ Len(file'.Providers) = Cardinality(others)
                   /\ \A j \in 1..Len(file'.Providers) :
                         \E i \in others :
                            /\ file'.Providers[j] = file.Providers[i]
                            /\ Cardinality({ h \in others : h < i }) = j - 1
                   /\ file'.Router = file.Router
                   /\ file'.LOG = file.LOG ]_vars

C11_Witness ==
    /\ last.op = "delete provider"
    /\ last.exit = 0
    /\ Len(file.Providers) > 0
    /\ \A i \in 1..Len(file.Providers) : file.Providers[i].name # last.args.provider_name
    /\ \E k \in Assignments(file.Router) :
          Split1(file.Router[k].str)[1] = last.args.provider_name

\* C14: a confirmed delete_router of longContext removes the longContext key and,
\* when it is there, the longContextThreshold key, in the one step that writes the
\* document; of background, think or webSearch it removes that key alone, so that
\* longContextThreshold and every other Router key are as before; and when the
\* router type is not a key of the Router section nothing is written.
C14_DeleteRouterCascade ==
    [][ ( /\ Did("delete router")
          /\ last'.args.router_type \in {"background", "think", "longContext", "webSearch"}
          /\ Confirmed(last'.args.auto_confirm, last'.args.response) ) =>
          LET t == last'.args.router_type
              gone == IF t = "longContext" THEN {t, THRESHOLD} ELSE {t}
          IN  IF t \notin DOMAIN file.Router
              THEN last'.exit = 0 /\ file' = file
              ELSE /\ last'.exit = 0
                   /\ DOMAIN file'.Router = DOMAIN file.Router \ gone
                   /\ \A k \in DOMAIN file'.Router : file'.Router[k] = file.Router[k]
                   /\ file'.Providers = file.Providers
                   /\ file'.LOG = file.LOG ]_vars

C14_Witness ==
    /\ last.op = "delete router"
    /\ last.exit = 0
    /\ last.args.router_type = "longContext"
    /\ last.note = "deleted, also removed longContextThreshold"
    /\ "longContext" \notin DOMAIN file.Router
    /\ THRESHOLD \notin DOMAIN file.Router
    /\ "default" \in DOMAIN file.Router

C14_WitnessOtherType ==
    /\ last.op = "delete router"
    /\ last.note = "deleted"
    /\ last.args.router_type = "webSearch"
    /\ THRESHOLD \in DOMAIN file.Router
    /\ "longContext" \in DOMAIN file.Router

\* C15: delete_router exits with status 1 and leaves the document as it was for the
\* router type default and for a type it does not know, whatever the confirmation;
\* and no step of any command takes the default key out of a Router section that
\* holds it.
C15_DefaultNeverRemoved ==
    /\ [][ ( /\ Did("delete router")
             /\ last'.args.router_type \notin {"background", "think", "longContext",
                                               "webSearch"} )
           => (last'.exit = 1 /\ file' = file) ]_vars
    /\ [][ "default" \in DOMAIN file.Router =>
             /\ "default" \in DOMAIN file'.Router
             /\ IsStr(file'.Router["default"]) ]_vars

C15_Witness ==
    /\ last.op = "delete router"
    /\ last.exit = 1
    /\ last.args.router_type = "default"
    /\ last.args.auto_confirm
    /\ "default" \in DOMAIN file.Router

\* C17: in every document the commands reach from one whose provider names are
\* pairwise distinct and whose api_base_url values are pairwise distinct, the
\* provider names are pairwise distinct and so are the api_base_url values.
C17_ProvidersStayDistinct ==
    \A i, j \in 1..Len(file.Providers) :
        i # j => /\ file.Providers[i].name # file.Providers[j].name
                 /\ file.Providers[i].api_base_url # file.Providers[j].api_base_url

C17_Witness ==
    /\ last.op = "add provider"
    /\ last.exit = 0
    /\ Len(file.Providers) > 2
    /\ file.Providers[Len(file.Providers)] = last.args.provider
    /\ last.args.provider.api_base_url # last.args.base_url

\* C19: delete provider, delete model and delete router run without the auto-confirm
\* flag change the document only when the answer, without the blanks around it and in
\* lower case, is "y"; with any other answer the command ends as cancelled (delete
\* router: unless it has already rejected the router type) and the document is as it
\* was.
C19_OnlyYConfirms ==
    [][ ( /\ \/ Did("delete provider")
             \/ Did("delete model")
             \/ Did("delete router")
          /\ ~last'.args.auto_confirm ) =>
          LET answer == last'.args.response
              first == CHOOSE i \in 1..Len(answer) : answer[i] # BLANK
              is_y == /\ \E i \in 1..Len(answer) : answer[i] # BLANK
                      /\ answer[first] \in {"y", "Y"}
                      /\ \A i \in 1..Len(answer) : i # first => answer[i] = BLANK
          IN  /\ file' # file => is_y
              /\ ~is_y =>
                    \/ last'.note = "cancelled" /\ last'.exit = 0
                    \/ /\ last'.op = "delete router"
                       /\ last'.args.router_type \notin deletable_types
                       /\ last'.exit = 1 ]_vars

C19_Witness ==
    /\ last.op \in {"delete provider", "delete model", "delete router"}
    /\ ~last.args.auto_confirm
    /\ last.args.response = <<"y", "e", "s">>
    /\ last.note = "cancelled"
    /\ \/ /\ last.op = "delete provider"
          /\ \E i \in 1..Len(file.Providers) : file.Providers[i].name = last.args.provider_name
       \/ /\ last.op = "delete model"
          /\ Listing(file, last.args.model_name) # {}
       \/ /\ last.op = "delete router"
          /\ last.args.router_type \in DOMAIN file.Router

C19_WitnessConfirmed ==
    /\ last.op = "delete model"
    /\ ~last.args.auto_confirm
    /\ last.args.response = <<BLANK, "Y">>
    /\ last.note = "deleted"

\* the Router keys on which the two Router sections differ
Touched(router, after) ==
    { k \in DOMAIN router \cup DOMAIN after :
        \/ k \notin DOMAIN router
        \/ k \notin DOMAIN after
        \/ router[k] # after[k] }

C13_EndpointResolution ==
    last.op = "validate_provider_endpoint" =>
        LET trimmed == RStripSlash(last.args.base_url)
            ends_with_v1 == EndsWith(trimmed, V1)
            ending_in_v1 == IF ends_with_v1 THEN trimmed ELSE trimmed \o V1
            without_v1 == IF ends_with_v1
                          THEN SubSeq(trimmed, 1, Len(trimmed) - 2)
                          ELSE trimmed
            failed(answer) == answer \in {"404", "error"}
            exists(answer) == answer \in {"2xx", "4xx"}
        IN  (ends_with_v1 \/ ~HasSub(trimmed, V1)) =>
               /\ exists(last.args.first) => last.note = ending_in_v1
               /\ (failed(last.args.first) /\ exists(last.args.second)) =>
                     last.note = without_v1
               /\ (failed(last.args.first) /\ failed(last.args.second)) =>
                     last.note = trimmed

\* C18: fetch_models_from_endpoint requests the /v1/models candidate and then the
\* /models candidate; a candidate that answers 401, 404 or another status than 200,
\* or whose request raises, is passed over; the result is the list of the first
\* candidate that answers 200 (the ids of the data array, the models array as it is,
\* a bare array as it is, the empty list for any other body), and the empty list when
\* no candidate answers 200; no exception leaves the function.
C18_FirstOkCandidateDecides ==
    last.op = "fetch_models_from_endpoint" =>
        LET answers == last.args.answers
            ok == { i \in 1..2 : answers[i].status = "200" }
            first_ok == CHOOSE i \in ok : \A j \in ok : i <= j
            list_of(body) ==
                IF body.json = "object" /\ "data" \in DOMAIN body.members
                THEN LET with_id == SelectSeq(body.members["data"],
                                              LAMBDA item : "id" \in DOMAIN item)
                     IN  [i \in 1..Len(with_id) |-> with_id[i].id]
                ELSE IF body.json = "object" /\ "models" \in DOMAIN body.members
                THEN body.members["models"]
                ELSE IF body.json = "array"
                THEN body.items
                ELSE << >>
        IN  /\ ~last.note.raised
            /\ last.note.tried =
                  SubSeq(urls_to_try(last.args.base_url), 1, IF ok = {} THEN 2 ELSE first_ok)
            /\ last.note.models = IF ok = {} THEN << >> ELSE list_of(answers[first_ok].body)

\* C12: every invocation of a mutating command (add provider, add model, delete
\* provider, delete model with its longContextThreshold cascade, delete router, change,
\* set threshold) saves the document at most once, and once it has saved it has
\* nothing left to do: wherever it stops, the document on disk is the one the command
\* found or the one with the whole command applied.
C12_SingleWriteAtEnd ==
    \A p \in Invocations :
        /\ procs[p].saves <= 1
        /\ procs[p].saves = 1 => procs[p].pc = "done"

\* the document invocation pr is about to save, from what it loaded and the change it
\* makes
Change(pr) ==
    LET doc == pr.config
        n == Len(doc.Providers)
    IN  IF pr.op = "add provider"
        THEN [doc EXCEPT !.Providers = [i \in 1..(n + 1) |->
                                           IF i <= n THEN doc.Providers[i]
                                           ELSE pr.args.provider]]
        ELSE IF pr.op = "add model"
        THEN LET i == CHOOSE i \in 1..n :
                        /\ doc.Providers[i].name = pr.args.provider
                        /\ \A j \in 1..(i - 1) : doc.Providers[j].name # pr.args.provider
             IN  [doc EXCEPT !.Providers[i].models = @ \o <<pr.args.model_name>>]
        ELSE IF pr.op = "delete provider"
        THEN [doc EXCEPT !.Providers =
                 SelectSeq(@, LAMBDA x : x.name # pr.args.provider_name)]
        ELSE IF pr.op = "delete model" /\ pr.saves = 0
        THEN [doc EXCEPT !.Providers =
                 [i \in 1..n |->
                     [doc.Providers[i] EXCEPT
                         !.models = SelectSeq(@, LAMBDA x : x # pr.args.model_name)]]]
        ELSE [doc EXCEPT !.Router = pr.router_config]

\* the step is a save of invocation p
Saves(p) == procs'[p].saves = procs[p].saves + 1

\* C20: when two invocations run on the same file with their loads and saves
\* interleaved, every save replaces the whole file by the document its invocation
\* loaded with that invocation's change applied, whatever the file holds by then (so
\* the file is the result of the last save, and a change saved between an
\* invocation's load and its save is gone after that save); and the invocation learns
\* nothing of it: it ends with status 0 like one that ran alone.
C20_LastWriteWins ==
    /\ [][ \A p \in Invocations :
             Saves(p) =>
                /\ file' = Change(procs[p])
                /\ procs'[p].pc = "done" => (procs'[p].exit = 0 /\ procs'[p].note = "ok") ]_vars
    /\ [](\A p \in Invocations :
             (procs[p].pc = "done" /\ procs[p].saves > 0) => procs[p].exit = 0)

\* a and b have each added a model to p1 and ended with status 0; b loaded before a
\* saved and saved after it; the file lists b's model and not a's
C20_Witness ==
    /\ procs["a"].op = "add model" /\ procs["a"].args = [provider |-> P1, model_name |-> M2]
    /\ procs["b"].op = "add model" /\ procs["b"].args = [provider |-> P1, model_name |-> M1]
    /\ procs["a"].pc = "done" /\ procs["a"].exit = 0 /\ procs["a"].saves = 1
    /\ procs["b"].pc = "done" /\ procs["b"].exit = 0 /\ procs["b"].saves = 1
    /\ procs["b"].stale
    /\ ~procs["a"].stale
    /\ file.Providers[1].name = P1
    /\ file.Providers[1].models = <<M1>>

\* provider `name` of the document lists model m
ListedBy(config, name, m) ==
    \E i \in 1..Len(config.Providers) :
        /\ config.Providers[i].name = name
        /\ Contains(config.Providers[i].models, m)

\* the step ends update_models before its report
Stopped == sweep.active /\ ~sweep'.active /\ last'.exit = 1

\* C21: in an update sweep the passes take the providers in document order, every
\* addition and removal of a pass is on disk when the pass ends (before the fetch of
\* the next provider), and when the sweep stops while a later provider is processed
\* the file still holds every change of the passes that were completed: each pair
\* they added is in that provider's list and each pair they removed is not.
C21_EarlierChangesDurable ==
    [][ /\ Reconciled =>
            /\ sweep'.name = sweep.providers[sweep.next].name
            /\ \A pm \in sweep'.added \ sweep.added : ListedBy(file', pm[1], pm[2])
            /\ \A pm \in sweep'.removed \ sweep.removed : ~ListedBy(file', pm[1], pm[2])
        /\ Stopped =>
            /\ \A pm \in sweep.added : ListedBy(file', pm[1], pm[2])
            /\ \A pm \in sweep.removed : ~ListedBy(file', pm[1], pm[2]) ]_vars

\* the model names the Router assignments of the form "provider,model" refer to
Referenced(router) == { Strip(RSplit1(router[k].str)[2]) : k \in Assignments(router) }

BareAssignments(router) ==
    { k \in DOMAIN router : k # THRESHOLD /\ IsStr(router[k]) /\ ~HasComma(router[k].str) }

\* C23: in an update sweep, a model that is the whole value of a comma-less Router
\* entry (longContextThreshold apart) is protected: when the provider being reconciled
\* stores it and the fetched catalog lacks it, the pass keeps it in that provider's
\* list and reports it as retained, not as removed.
C23_BareAssignmentProtected ==
    [][ Reconciled =>
          \A k \in BareAssignments(file.Router) :
              LET m == file.Router[k].str
              IN  m \in sweep'.stored \ sweep'.fetched =>
                    /\ ListedBy(file', sweep'.name, m)
                    /\ <<sweep'.name, m>> \in sweep'.retained
                    /\ <<sweep'.name, m>> \notin sweep'.removed ]_vars

\* C24: validate_provider_endpoint removes exactly one trailing "/" of the given URL
\* before it builds the probe targets and the result: the requests go to the /v1 and
\* the other candidate of the URL without its last slash, and the result is that URL,
\* that URL followed by /v1, or that URL without its final /v1.
C24_OneTrailingSlashStripped ==
    last.op = "validate_provider_endpoint" =>
        LET trimmed == DropOneSlash(last.args.base_url)
        IN  /\ last.note \in
                 { trimmed, trimmed \o V1 } \cup
                 (IF EndsWith(trimmed, V1) THEN { DropV1(trimmed) } ELSE {})
            /\ ToSet(last.args.probes) \subseteq { v1_url(trimmed), no_v1_url(trimmed) }

\* C25: every initial document holds longContextThreshold only together with a
\* longContext assignment that is not empty, and after any sequence of commands
\* (change_router, delete_router, set_long_context_threshold, delete model, delete
\* provider, add provider, add model, update) the Router section on disk never holds
\* longContextThreshold without a longContext assignment that is not empty.
C25_ThresholdOnlyWithLongContext ==
    THRESHOLD \in DOMAIN file.Router =>
        /\ "longContext" \in DOMAIN file.Router
        /\ IsStr(file.Router["longContext"])
        /\ file.Router["longContext"].str # <<>>

C25_Witness ==
    /\ last.op = "delete router"
    /\ last.exit = 0
    /\ last.note = "deleted, also removed longContextThreshold"
    /\ last.args.router_type = "longContext"
    /\ "longContext" \notin DOMAIN file.Router
    /\ THRESHOLD \notin DOMAIN file.Router

\* C26: in an update sweep, a pass changes the models list of the provider it
\* reconciles and of no other: every other provider's list holds after the pass the
\* models it held before.
C26_OnlyReconciledProviderChanges ==
    [][ Reconciled =>
          /\ Len(file'.Providers) = Len(file.Providers)
          /\ \A i \in 1..Len(file.Providers) :
                file.Providers[i].name # sweep'.name =>
                    file'.Providers[i].models = file.Providers[i].models ]_vars

\* C27: when an update sweep finishes, its report agrees with the document on disk:
\* every (provider, model) pair reported as added or as retained is in that provider's
\* models list, every pair reported as removed is not, and no pair is in more than one
\* of the three lists.
C27_ReportFaithful ==
    (last.op = "update" /\ last.note = "completed") =>
        /\ \A pm \in last.args.added \cup last.args.retained : ListedBy(file, pm[1], pm[2])
        /\ \A pm \in last.args.removed : ~ListedBy(file, pm[1], pm[2])
        /\ last.args.added \cap last.args.removed = {}
        /\ last.args.added \cap last.args.retained = {}
        /\ last.args.removed \cap last.args.retained = {}

\* how many times the path segment /v1 occurs in a URL
CountV1(url) ==
    Cardinality({ i \in 1..(Len(url) - 1) : SubSeq(url, i, i + 1) = V1 })

\* C28: for a given URL that holds the segment /v1 at most once, at its end or in the
\* middle of its path, and for every pair of probe outcomes, the URL returned by
\* validate_provider_endpoint holds the segment /v1 at most once.
C28_NoDoubleV1 ==
    (last.op = "validate_provider_endpoint" /\ CountV1(last.args.base_url) <= 1) =>
        CountV1(last.note) <= 1

\* a URL without the slashes it ends with
WithoutTrailingSlashes(url) ==
    LET kept == { k \in 0..Len(url) : \A i \in (k + 1)..Len(url) : url[i] = SLASH }
    IN  SubSeq(url, 1, CHOOSE k \in kept : \A j \in kept : k <= j)

C30_ConcurrentAddsNoDuplicate ==
    LET a == procs["a"]
        b == procs["b"]
        named(n) == { i \in 1..Len(file.Providers) : file.Providers[i].name = n }
        at(u) == { i \in 1..Len(file.Providers) : file.Providers[i].api_base_url = u }
    IN  (/\ a.op = "add provider" /\ a.pc = "done"
         /\ b.op = "add provider" /\ b.pc = "done") =>
            /\ a.args.provider.name = b.args.provider.name =>
                  Cardinality(named(a.args.provider.name)) <= 1
            /\ a.args.provider.api_base_url = b.args.provider.api_base_url =>
                  Cardinality(at(a.args.provider.api_base_url)) <= 1

============================================================================
